---- MODULE Spec2Model ----
(***************************************************************************)
(* Model of the SCIM-to-MongoDB provisioning plugin                         *)
(* (src/scimgateway/lib/plugin-mongodb-new-connector2.js).                  *)
(*                                                                          *)
(* The store (the two Prisma collections) is the shared state.  A request   *)
(* is one run of a handler; it advances from one store round trip to the    *)
(* next, and every store call is one atomic step of the store.  A store     *)
(* call may fault.  The membership updates that deleteUser starts inside    *)
(* `groups.forEach(async ...)` are not awaited by the handler: they are     *)
(* kept in `pending` and land (or fault) at any later moment.               *)
(***************************************************************************)
EXTENDS Integers, Sequences, FiniteSets, TLC

\* ------------------------------------------------------------------ bounds
MaxUsers == 2      \* user records the store ever creates (ids 1..MaxUsers)
MaxGroups == 1     \* group records the store ever creates (ids 1..MaxGroups)
MaxEdits == 2      \* member edits in one modifyGroup request of a lone client
MaxConcEdits == 1  \* member edits in one modifyGroup request of concurrent clients
MaxPending == 2    \* un-awaited membership updates in flight at one time
MaxFrameGroups == 2  \* groups created where one group is deleted among others

Names == {"alice", "bob"}          \* userName values callers use
GroupNames == {"eng"}              \* displayName values callers use
Operations == {"add", "delete"}    \* member.operation: "delete", or anything else
Procs == {1, 2}                    \* request slots (concurrent callers)
Client == {1}                      \* the slot of a caller that awaits each request

NoAttr == ""                       \* attribute absent from the request object

\* groupObj of createGroup: a displayName, with or without members
GroupObjs ==
    [displayName : GroupNames, members : {<<>>, <<[value |-> "alice"]>>}]

\* getObj.attribute, getObj.operator: the values the handlers test for, and
\* one other of each
Attributes ==
    {"id", "userName", "displayName", "externalId", "group.value",
     "members.value", "title"}
Operators == {"eq", "co"}

\* an identifier as the string the store and the callers know it by
idString(id) == ToString(id)

\* getObj.value: a userName, a displayName or the id of a group
Values == Names \cup GroupNames \cup {idString(i) : i \in 1..MaxGroups}

\* getObj of a listing, of an advanced filter, and of a simple filter
\* (rawFilter is always included when filtering)
GetObjs ==
    {[attribute |-> NoAttr, operator |-> NoAttr, value |-> NoAttr, rawFilter |-> f] :
        f \in {NoAttr, "raw"}}
    \cup [attribute : Attributes, operator : Operators, value : Values,
          rawFilter : {"raw"}]

VARIABLES
    users,        \* userSchema: set of [id, username]
    groups,       \* groupSchema: set of [id, name, members]
    nextUserId,   \* the store's id generator for users
    nextGroupId,  \* the store's id generator for groups
    req,          \* req[p]: the handler run in slot p
    pending       \* membership updates deleteUser started and did not await

vars == <<users, groups, nextUserId, nextGroupId, req, pending>>

\* ------------------------------------------------------- sequence helpers
\* Array.prototype.includes
includes(s, x) == \E k \in DOMAIN s : s[k] = x

\* Array.prototype.filter((item) => item !== x)
filterOut(s, x) == SelectSeq(s, LAMBDA item : item # x)

NoDup(s) == \A a, b \in DOMAIN s : s[a] = s[b] => a = b

\* ------------------------------------------------------------ store reads
\* userSchema.findUnique / findFirst({ where: { username: name } })
userWhere(us, name) == {u \in us : u.username = name}

\* groupSchema.findUnique({ where: { id } })
groupWhere(gs, gid) == {g \in gs : g.id = gid}

\* groupSchema.findMany({ where: { members: { has: uid } } })
groupsHaving(gs, uid) == {g \in gs : includes(g.members, uid)}

\* ------------------------------------------------------------- requests
\* no handler runs in the slot
Idle == [op |-> "idle", pc |-> "idle"]

\* A handler called with its identifier argument: the userName of a user
\* request, the id of a group request.  uid is the id of the user the run
\* resolved, writes counts the store writes it has started.
Request(op, name, gid) ==
    [op |-> op, pc |-> "start", name |-> name, gid |-> gid, uid |-> 0,
     writes |-> 0, err |-> ""]

\* What is left of a handler run once its promise has settled: the request,
\* the user it resolved, the store writes it started, and the outcome.  The
\* locals of main() are gone.  main() has run, so finally has called
\* prisma.$disconnect() once.
Settled(r, pc, msg) ==
    [op |-> r.op, pc |-> pc, name |-> r.name, gid |-> r.gid, uid |-> r.uid,
     writes |-> r.writes, err |-> msg, disconnects |-> 1]

\* the handler's promise rejected with Error(msg)
Failed(r, msg) == Settled(r, "failed", msg)

\* the handler's promise resolved
Done(r) == Settled(r, "done", "")

Init ==
    /\ users = {}
    /\ groups = {}
    /\ nextUserId = 1
    /\ nextGroupId = 1
    /\ req = [p \in Procs |-> Idle]
    /\ pending = {}

StoreUnchanged == UNCHANGED <<users, groups, nextUserId, nextGroupId>>

\* ------------------------------------------------------- attribute mapper
\* config.map.user and config.map.group, in the order of the configuration:
\* store field (key) and the attribute it maps to (every rule is of type
\* string, but active, which is boolean: values pass through unchanged)
UserMap ==
    <<[key |-> "id", mapTo |-> "id"],
      [key |-> "_id", mapTo |-> "id"],
      [key |-> "username", mapTo |-> "userName"],
      [key |-> "active", mapTo |-> "active"],
      [key |-> "password", mapTo |-> "password"],
      [key |-> "givenName", mapTo |-> "name.givenName"],
      [key |-> "familyName", mapTo |-> "name.familyName"],
      [key |-> "displayName", mapTo |-> "name.formatted"],
      [key |-> "email", mapTo |-> "attributes.email.value"],
      [key |-> "homePhone", mapTo |-> "phoneNumbers.home.value"],
      [key |-> "postalCode", mapTo |-> "addresses.work.postalCode"],
      [key |-> "streetAddress", mapTo |-> "addresses.work.streetAddress"],
      [key |-> "telephoneNumber", mapTo |-> "attributes.telephoneNumber.value"]>>

GroupMap ==
    <<[key |-> "id", mapTo |-> "id"],
      [key |-> "_id", mapTo |-> "id"],
      [key |-> "name", mapTo |-> "displayName"]>>

\* the rules of map for attribute a
rulesFor(map, a) == {k \in DOMAIN map : map[k].mapTo = a}

\* endpointMapper("outbound", obj, map): every attribute of obj that has a
\* rule sets the store field of the rule to its value; attributes without a
\* rule are dropped.  Of two rules for one attribute the first of the
\* configuration is taken: the store field of { id } is id, which is what
\* the handlers delete from the result and pass to findUnique.
outbound(obj, map) ==
    LET mapped == {a \in DOMAIN obj : rulesFor(map, a) # {}}
        first(a) == CHOOSE k \in rulesFor(map, a) : \A j \in rulesFor(map, a) : k <= j
    IN [f \in {map[first(a)].key : a \in mapped} |->
           obj[CHOOSE a \in mapped : map[first(a)].key = f]]

\* endpointMapper("inbound", row, map): every rule whose store field is in
\* row sets its attribute to the value, in the order of the configuration (a
\* later rule for the same attribute overwrites); fields without a rule are
\* dropped
inbound(row, map) ==
    LET present == {k \in DOMAIN map : map[k].key \in DOMAIN row}
        last(a) == CHOOSE k \in present \cap rulesFor(map, a) :
                       \A j \in present \cap rulesFor(map, a) : j <= k
    IN [a \in {map[k].mapTo : k \in present} |-> row[map[last(a)].key]]

\* (mutant of createUser) the userName is not unique in the store: the create
\* of a taken userName adds a record
createUserNotUnique(p, name) ==
    /\ req[p].pc = "idle"
    /\ LET r == Request("createUser", name, 0) IN
       \/ /\ req' = [req EXCEPT ![p] = Failed(r, "Error at field")]
          /\ UNCHANGED <<users, groups, nextUserId, nextGroupId, pending>>
       \/ /\ nextUserId <= MaxUsers
          /\ users' = users \cup {[id |-> nextUserId, username |-> name]}
          /\ nextUserId' = nextUserId + 1
          /\ req' = [req EXCEPT ![p] = Done([r EXCEPT !.uid = nextUserId, !.writes = 1])]
          /\ UNCHANGED <<groups, nextGroupId, pending>>

\* ------------------------------------------------------------ createUser
\* userSchema.create({ data: newUser }): P2002 when the unique username is
\* taken, any other rejection is reported as "Error at field".
createUser(p, name) ==
    /\ req[p].pc = "idle"
    /\ LET r == Request("createUser", name, 0) IN
       \/ /\ userWhere(users, name) # {}
          /\ req' = [req EXCEPT ![p] = Failed(r, "Duplicate key")]
          /\ UNCHANGED <<users, groups, nextUserId, nextGroupId, pending>>
       \/ /\ req' = [req EXCEPT ![p] = Failed(r, "Error at field")]
          /\ UNCHANGED <<users, groups, nextUserId, nextGroupId, pending>>
       \/ /\ userWhere(users, name) = {}
          /\ nextUserId <= MaxUsers
          /\ users' = users \cup {[id |-> nextUserId, username |-> name]}
          /\ nextUserId' = nextUserId + 1
          /\ req' = [req EXCEPT ![p] = Done([r EXCEPT !.uid = nextUserId, !.writes = 1])]
          /\ UNCHANGED <<groups, nextGroupId, pending>>

\* ----------------------------------------------------------- createGroup
\* (mutant of createGroup) no .catch on the create: the store's message is
\* passed on
createGroupNoCatch(p, groupObj) ==
    /\ req[p].pc = "idle"
    /\ LET r == Request("createGroup", NoAttr, 0)
           newGroup == outbound(groupObj, GroupMap)
           data == [members |-> <<>>] @@ newGroup IN
       \/ /\ req' = [req EXCEPT ![p] = Failed(r, "Unique constraint failed")]
          /\ UNCHANGED <<users, groups, nextUserId, nextGroupId, pending>>
       \/ /\ req' = [req EXCEPT ![p] = Failed(r, "store error")]
          /\ UNCHANGED <<users, groups, nextUserId, nextGroupId, pending>>
       \/ /\ groups' = groups \cup {[id |-> nextGroupId] @@ data}
          /\ nextGroupId' = nextGroupId + 1
          /\ req' = [req EXCEPT ![p] =
                 Done([r EXCEPT !.gid = nextGroupId, !.writes = 1])
                 @@ [groupObj |-> groupObj]]
          /\ UNCHANGED <<users, nextUserId, pending>>

\* (mutant of createGroup) the members of the request are kept: no
\* `members: []` in the data
createGroupKeepsMembers(p, groupObj) ==
    /\ req[p].pc = "idle"
    /\ LET r == Request("createGroup", NoAttr, 0)
           newGroup == outbound(groupObj, GroupMap)
           data == newGroup @@ [members |-> groupObj.members] IN
       \/ /\ req' = [req EXCEPT ![p] = Failed(r, "Duplicate key")]
          /\ UNCHANGED <<users, groups, nextUserId, nextGroupId, pending>>
       \/ /\ req' = [req EXCEPT ![p] = Failed(r, "Error at field")]
          /\ UNCHANGED <<users, groups, nextUserId, nextGroupId, pending>>
       \/ /\ groups' = groups \cup {[id |-> nextGroupId] @@ data}
          /\ nextGroupId' = nextGroupId + 1
          /\ req' = [req EXCEPT ![p] =
                 Done([r EXCEPT !.gid = nextGroupId, !.writes = 1])
                 @@ [groupObj |-> groupObj]]
          /\ UNCHANGED <<users, nextUserId, pending>>

\* newGroup is groupObj mapped outbound; groupSchema.create({ data: {
\* ...newGroup, members: [] } }).  P2002 becomes `Duplicate key at ...`, any
\* other rejection `Error at field: ...`.  The store gives the id.
createGroup(p, groupObj) ==
    /\ req[p].pc = "idle"
    /\ LET r == Request("createGroup", NoAttr, 0)
           newGroup == outbound(groupObj, GroupMap)
           data == [members |-> <<>>] @@ newGroup IN
       \/ /\ req' = [req EXCEPT ![p] = Failed(r, "Duplicate key")]
          /\ UNCHANGED <<users, groups, nextUserId, nextGroupId, pending>>
       \/ /\ req' = [req EXCEPT ![p] = Failed(r, "Error at field")]
          /\ UNCHANGED <<users, groups, nextUserId, nextGroupId, pending>>
       \/ /\ groups' = groups \cup {[id |-> nextGroupId] @@ data}
          /\ nextGroupId' = nextGroupId + 1
          /\ req' = [req EXCEPT ![p] =
                 Done([r EXCEPT !.gid = nextGroupId, !.writes = 1])
                 @@ [groupObj |-> groupObj]]
          /\ UNCHANGED <<users, nextUserId, pending>>

\* (mutant of duFind) the existence check is dropped: main() goes on with an
\* undefined user
duFindUnchecked(p, name) ==
    /\ req[p].pc = "idle"
    /\ req' = [req EXCEPT ![p] =
           [Request("deleteUser", name, 0) EXCEPT !.pc = "duGroups"]]
    /\ UNCHANGED <<users, groups, nextUserId, nextGroupId, pending>>

\* ------------------------------------------------------------ deleteUser
\* findUnique by the mapped userName; `User ${id} not found` when absent.
duFind(p, name) ==
    /\ req[p].pc = "idle"
    /\ LET r == Request("deleteUser", name, 0) IN
       \/ /\ userWhere(users, name) = {}
          /\ req' = [req EXCEPT ![p] = Failed(r, "User not found")]
       \/ /\ req' = [req EXCEPT ![p] = Failed(r, "store error")]
       \/ \E u \in userWhere(users, name) :
              req' = [req EXCEPT ![p] = [r EXCEPT !.pc = "duGroups", !.uid = u.id]]
    /\ UNCHANGED <<users, groups, nextUserId, nextGroupId, pending>>

\* (mutant of pruneUpdates) the forEach over the groups is skipped
pruneUpdatesSkipped(found, uid) == {}

\* the update each forEach callback starts: the members of the group as
\* findMany returned it, without the user's id
pruneUpdates(found, uid) ==
    {[gid |-> g.id, members |-> filterOut(g.members, uid)] : g \in found}

\* findMany of the groups having the user, then forEach(async ...) starts one
\* update per group and returns without waiting for any of them.
duGroups(p) ==
    /\ req[p].pc = "duGroups"
    /\ \/ /\ req' = [req EXCEPT ![p] = Failed(@, "store error")]
          /\ UNCHANGED pending
       \/ LET found == groupsHaving(groups, req[p].uid)
              started == pruneUpdates(found, req[p].uid) IN
          /\ Cardinality(pending \cup started) <= MaxPending
          /\ pending' = pending \cup started
          /\ req' = [req EXCEPT ![p] =
                 [@ EXCEPT !.pc = "duDelete", !.writes = @ + Cardinality(started)]
                 @@ [found |-> found, issued |-> {u.gid : u \in started},
                     faulted |-> FALSE]]
    /\ StoreUnchanged

\* (mutant of duDelete) no `if (err.code === "P2025")`: the store's message
\* is passed on
duDeleteRaw(p) ==
    /\ req[p].pc = "duDelete"
    /\ \/ /\ userWhere(users, req[p].name) = {}
          /\ req' = [req EXCEPT ![p] = Failed(@, "Record to delete does not exist")]
          /\ UNCHANGED users
       \/ /\ req' = [req EXCEPT ![p] = Failed(@, "store error")]
          /\ UNCHANGED users
       \/ /\ userWhere(users, req[p].name) # {}
          /\ users' = users \ userWhere(users, req[p].name)
          /\ req' = [req EXCEPT ![p] = Done([@ EXCEPT !.writes = @ + 1])]
    /\ UNCHANGED <<groups, nextUserId, nextGroupId, pending>>

\* userSchema.delete by the mapped userName; P2025 becomes `User ${id} not found`.
duDelete(p) ==
    /\ req[p].pc = "duDelete"
    /\ \/ /\ userWhere(users, req[p].name) = {}
          /\ req' = [req EXCEPT ![p] = Failed(@, "User not found")]
          /\ UNCHANGED users
       \/ /\ req' = [req EXCEPT ![p] = Failed(@, "store error")]
          /\ UNCHANGED users
       \/ /\ userWhere(users, req[p].name) # {}
          /\ users' = users \ userWhere(users, req[p].name)
          /\ req' = [req EXCEPT ![p] = Done([@ EXCEPT !.writes = @ + 1])]
    /\ UNCHANGED <<groups, nextUserId, nextGroupId, pending>>

\* One of the un-awaited membership updates reaches the store.
pruneLand(u) ==
    /\ u \in pending
    /\ groupWhere(groups, u.gid) # {}
    /\ groups' = {IF g.id = u.gid THEN [g EXCEPT !.members = u.members] ELSE g : g \in groups}
    /\ pending' = pending \ {u}
    /\ UNCHANGED <<users, nextUserId, nextGroupId, req>>

\* One of them is rejected (a store fault, or P2025 when the group is gone);
\* nothing handles the rejection.  A deleteUser still running that started
\* the update is marked (faulted records the event, the handler never reads
\* it).
pruneFault(u) ==
    /\ u \in pending
    /\ pending' = pending \ {u}
    /\ req' = [p \in Procs |->
                  IF /\ req[p].pc = "duDelete"
                     /\ u \in pruneUpdates(req[p].found, req[p].uid)
                  THEN [req[p] EXCEPT !.faulted = TRUE]
                  ELSE req[p]]
    /\ UNCHANGED <<users, groups, nextUserId, nextGroupId>>

\* ------------------------------------------------------------ modifyUser
\* updatedUser mapped from attrObj, then findUnique of the user by the mapped
\* userName; `User ${id} not found` when absent.
muFind(p, name, attrObj) ==
    /\ req[p].pc = "idle"
    /\ LET r == Request("modifyUser", name, 0) IN
       \/ /\ userWhere(users, name) = {}
          /\ req' = [req EXCEPT ![p] = Failed(r, "User not found")]
       \/ /\ req' = [req EXCEPT ![p] = Failed(r, "store error")]
       \/ \E u \in userWhere(users, name) :
              req' = [req EXCEPT ![p] =
                  [r EXCEPT !.pc = "muUpdate", !.uid = u.id]
                  @@ [updatedUser |-> outbound(attrObj, UserMap)]]
    /\ UNCHANGED <<users, groups, nextUserId, nextGroupId, pending>>

\* update({ where, data }) on the row it addresses: the fields data names
\* take its values
updateRow(row, data) ==
    [f \in DOMAIN row |-> IF f \in DOMAIN data THEN data[f] ELSE row[f]]

\* userSchema.update({ where: the mapped userName, data: updatedUser }).  A
\* rejection (fault, P2025 record gone, P2002 userName or id taken, data the
\* store does not accept) is passed on as Error(err.message).
muUpdate(p) ==
    /\ req[p].pc = "muUpdate"
    /\ \/ /\ req' = [req EXCEPT ![p] = Failed(@, "store error")]
          /\ UNCHANGED users
       \/ \E u \in userWhere(users, req[p].name) :
            LET row == updateRow(u, req[p].updatedUser) IN
            /\ userWhere(users \ {u}, row.username) = {}
            /\ \A x \in users \ {u} : x.id # row.id
            /\ users' = (users \ {u}) \cup {row}
            /\ req' = [req EXCEPT ![p] = Done([@ EXCEPT !.writes = @ + 1])]
    /\ UNCHANGED <<groups, nextUserId, nextGroupId, pending>>

\* ----------------------------------------------------------- deleteGroup
dgFind(p, gid) ==
    /\ req[p].pc = "idle"
    /\ LET r == Request("deleteGroup", NoAttr, gid) IN
       \/ /\ groupWhere(groups, gid) = {}
          /\ req' = [req EXCEPT ![p] = Failed(r, "Group not found")]
       \/ /\ req' = [req EXCEPT ![p] = Failed(r, "store error")]
       \/ /\ groupWhere(groups, gid) # {}
          /\ req' = [req EXCEPT ![p] = [r EXCEPT !.pc = "dgDelete"]]
    /\ UNCHANGED <<users, groups, nextUserId, nextGroupId, pending>>

\* (mutant of dgDelete) the delete is not restricted to the addressed group
dgDeleteMany(p) ==
    /\ req[p].pc = "dgDelete"
    /\ \/ /\ groupWhere(groups, req[p].gid) = {}
          /\ req' = [req EXCEPT ![p] = Failed(@, "Group not found")]
          /\ UNCHANGED groups
       \/ /\ req' = [req EXCEPT ![p] = Failed(@, "store error")]
          /\ UNCHANGED groups
       \/ /\ groupWhere(groups, req[p].gid) # {}
          /\ groups' = {}
          /\ req' = [req EXCEPT ![p] = Done([@ EXCEPT !.writes = @ + 1])]
    /\ UNCHANGED <<users, nextUserId, nextGroupId, pending>>

dgDelete(p) ==
    /\ req[p].pc = "dgDelete"
    /\ \/ /\ groupWhere(groups, req[p].gid) = {}
          /\ req' = [req EXCEPT ![p] = Failed(@, "Group not found")]
          /\ UNCHANGED groups
       \/ /\ req' = [req EXCEPT ![p] = Failed(@, "store error")]
          /\ UNCHANGED groups
       \/ /\ groupWhere(groups, req[p].gid) # {}
          /\ groups' = groups \ groupWhere(groups, req[p].gid)
          /\ req' = [req EXCEPT ![p] = Done([@ EXCEPT !.writes = @ + 1])]
    /\ UNCHANGED <<users, nextUserId, nextGroupId, pending>>

\* ----------------------------------------------------------- modifyGroup
\* attrObj.members of at most n entries
EditSeqs(n) ==
    UNION {[1..k -> [value : Names, operation : Operations]] : k \in 0..n}

\* (mutant of applyEdit) push without the includes() test
applyEditAlwaysPush(st, uid, operation) ==
    IF operation = "delete"
    THEN [sel |-> st.sel, work |-> filterOut(st.sel, uid), aliased |-> FALSE]
    ELSE [sel |-> IF st.aliased THEN Append(st.sel, uid) ELSE st.sel,
          work |-> Append(st.work, uid),
          aliased |-> st.aliased]

\* (mutant of applyEdit) the filter predicate inverted: item === user.id
applyEditInvertedFilter(st, uid, operation) ==
    IF operation = "delete"
    THEN [sel |-> st.sel, work |-> SelectSeq(st.sel, LAMBDA item : item = uid),
          aliased |-> FALSE]
    ELSE IF ~includes(st.work, uid)
         THEN [sel |-> IF st.aliased THEN Append(st.sel, uid) ELSE st.sel,
               work |-> Append(st.work, uid),
               aliased |-> st.aliased]
         ELSE st

\* One pass of the for-loop body after the user lookup.  st.sel is
\* selectedGroup.members, st.work is newMembers; they are the same array
\* (st.aliased) until a delete rebinds newMembers to a filtered copy.
applyEdit(st, uid, operation) ==
    IF operation = "delete"
    THEN [sel |-> st.sel, work |-> filterOut(st.sel, uid), aliased |-> FALSE]
    ELSE IF ~includes(st.work, uid)
         THEN [sel |-> IF st.aliased THEN Append(st.sel, uid) ELSE st.sel,
               work |-> Append(st.work, uid),
               aliased |-> st.aliased]
         ELSE st

\* The whole for-loop over attrObj.members as a function of the members read
\* and of the user ids the lookups resolved: newMembers after k edits.
RECURSIVE applyEdits(_, _, _, _)
applyEdits(members, edits, ids, k) ==
    IF k = 0
    THEN [sel |-> members, work |-> members, aliased |-> TRUE]
    ELSE applyEdit(applyEdits(members, edits, ids, k - 1), ids[k], edits[k].operation)

newMembersOf(members, edits, ids) == applyEdits(members, edits, ids, Len(edits)).work

\* findUnique of the group; `Group ${id} not found` when absent.
mgFind(p, gid, attrObj) ==
    /\ req[p].pc = "idle"
    /\ LET r == Request("modifyGroup", NoAttr, gid)
           edits == attrObj.members IN
       \/ /\ groupWhere(groups, gid) = {}
          /\ req' = [req EXCEPT ![p] = Failed(r, "Group not found")]
       \/ /\ req' = [req EXCEPT ![p] = Failed(r, "store error")]
       \/ \E g \in groupWhere(groups, gid) :
              req' = [req EXCEPT ![p] =
                  [r EXCEPT !.pc = IF Len(edits) > 0 THEN "mgEdit" ELSE "mgUpdate"]
                  @@ [updatedGroup |-> outbound(attrObj, GroupMap),
                      edits |-> edits, i |-> 1,
                      sel |-> g.members, work |-> g.members, aliased |-> TRUE,
                      orig |-> g.members, ids |-> <<>>]]
    /\ UNCHANGED <<users, groups, nextUserId, nextGroupId, pending>>

\* (mutant of mgEdit) no `if (!user) throw`: an edit naming an unknown member
\* is passed over
mgEditUnchecked(p) ==
    /\ req[p].pc = "mgEdit"
    /\ LET r == req[p]
           e == r.edits[r.i]
           next == IF r.i < Len(r.edits) THEN "mgEdit" ELSE "mgUpdate" IN
       \/ /\ userWhere(users, e.value) = {}
          /\ req' = [req EXCEPT ![p] =
                 [r EXCEPT !.pc = next, !.i = r.i + 1, !.ids = Append(r.ids, 0)]]
       \/ \E u \in userWhere(users, e.value) :
            LET st == applyEdit([sel |-> r.sel, work |-> r.work, aliased |-> r.aliased],
                                u.id, e.operation) IN
            req' = [req EXCEPT ![p] =
                [r EXCEPT !.pc = next, !.i = r.i + 1, !.sel = st.sel, !.work = st.work,
                          !.aliased = st.aliased, !.ids = Append(r.ids, u.id),
                          !.uid = u.id]]
    /\ UNCHANGED <<users, groups, nextUserId, nextGroupId, pending>>

\* (mutant of mgEdit) each edit is stored as soon as it is made
mgEditWritesThrough(p) ==
    /\ req[p].pc = "mgEdit"
    /\ LET r == req[p]
           e == r.edits[r.i] IN
       \/ /\ userWhere(users, e.value) = {}
          /\ req' = [req EXCEPT ![p] = Failed(r, "User not found")]
          /\ UNCHANGED groups
       \/ /\ req' = [req EXCEPT ![p] = Failed(r, "store error")]
          /\ UNCHANGED groups
       \/ \E u \in userWhere(users, e.value) :
            LET st == applyEdit([sel |-> r.sel, work |-> r.work, aliased |-> r.aliased],
                                u.id, e.operation) IN
            /\ req' = [req EXCEPT ![p] =
                   [r EXCEPT !.pc = IF r.i < Len(r.edits) THEN "mgEdit" ELSE "mgUpdate",
                             !.i = r.i + 1, !.sel = st.sel, !.work = st.work,
                             !.aliased = st.aliased, !.ids = Append(r.ids, u.id),
                             !.uid = u.id]]
            /\ groups' = {IF g.id = r.gid THEN [g EXCEPT !.members = st.work] ELSE g :
                             g \in groups}
    /\ UNCHANGED <<users, nextUserId, nextGroupId, pending>>

\* One member edit: findFirst of the user by the mapped userName, then the
\* edit.  The error of an unknown member is `User ${id} not found`, with the
\* id of the group.
mgEdit(p) ==
    /\ req[p].pc = "mgEdit"
    /\ LET r == req[p]
           e == r.edits[r.i] IN
       \/ /\ userWhere(users, e.value) = {}
          /\ req' = [req EXCEPT ![p] = Failed(r, "User not found")]
       \/ /\ req' = [req EXCEPT ![p] = Failed(r, "store error")]
       \/ \E u \in userWhere(users, e.value) :
            LET st == applyEdit([sel |-> r.sel, work |-> r.work, aliased |-> r.aliased],
                                u.id, e.operation) IN
            req' = [req EXCEPT ![p] =
                [r EXCEPT !.pc = IF r.i < Len(r.edits) THEN "mgEdit" ELSE "mgUpdate",
                          !.i = r.i + 1, !.sel = st.sel, !.work = st.work,
                          !.aliased = st.aliased, !.ids = Append(r.ids, u.id),
                          !.uid = u.id]]
    /\ UNCHANGED <<users, groups, nextUserId, nextGroupId, pending>>

\* delete obj[f]
without(obj, f) == [k \in DOMAIN obj \ {f} |-> obj[k]]

\* (mutant of mgUpdate) no `delete updatedGroup["id"]`
mgUpdateKeepsId(p) ==
    /\ req[p].pc = "mgUpdate"
    /\ \/ /\ req' = [req EXCEPT ![p] = Failed(@, "store error")]
          /\ UNCHANGED groups
       \/ \E g \in groupWhere(groups, req[p].gid) :
            LET data == [members |-> req[p].work] @@ req[p].updatedGroup IN
            /\ groups' = (groups \ {g}) \cup {updateRow(g, data)}
            /\ req' = [req EXCEPT ![p] =
                   Done([@ EXCEPT !.writes = @ + 1])
                   @@ [updatedGroup |-> req[p].updatedGroup]]
    /\ UNCHANGED <<users, nextUserId, nextGroupId, pending>>

\* (mutant of mgUpdate) a rejected update is tried again from the first edit
mgUpdateRetries(p) ==
    /\ req[p].pc = "mgUpdate"
    /\ \/ /\ req' = [req EXCEPT ![p] =
                 [@ EXCEPT !.pc = IF Len(req[p].edits) > 0 THEN "mgEdit" ELSE "mgUpdate",
                           !.i = 1, !.sel = req[p].orig, !.work = req[p].orig,
                           !.aliased = TRUE, !.ids = <<>>]]
          /\ UNCHANGED groups
       \/ \E g \in groupWhere(groups, req[p].gid) :
            LET data == [members |-> req[p].work]
                        @@ without(req[p].updatedGroup, "id") IN
            /\ groups' = (groups \ {g}) \cup {updateRow(g, data)}
            /\ req' = [req EXCEPT ![p] =
                   Done([@ EXCEPT !.writes = @ + 1])
                   @@ [updatedGroup |-> req[p].updatedGroup]]
    /\ UNCHANGED <<users, nextUserId, nextGroupId, pending>>

\* delete updatedGroup["id"], then
\* groupSchema.update({ where: { id }, data: { ...updatedGroup, members: newMembers } })
\* A rejection (fault, P2025 group gone) is passed on as Error(err.message).
\* The settled request keeps the mapped attributes it was called with.
mgUpdate(p) ==
    /\ req[p].pc = "mgUpdate"
    /\ \/ /\ req' = [req EXCEPT ![p] = Failed(@, "store error")]
          /\ UNCHANGED groups
       \/ \E g \in groupWhere(groups, req[p].gid) :
            LET data == [members |-> req[p].work]
                        @@ without(req[p].updatedGroup, "id") IN
            /\ groups' = (groups \ {g}) \cup {updateRow(g, data)}
            /\ req' = [req EXCEPT ![p] =
                   Done([@ EXCEPT !.writes = @ + 1])
                   @@ [updatedGroup |-> req[p].updatedGroup]]
    /\ UNCHANGED <<users, nextUserId, nextGroupId, pending>>

\* ------------------------------------------------------------ store query
\* the value a where-clause on field f is compared with: id and _id are the
\* identifier of the record
fieldOf(row, f) == IF f \in {"id", "_id"} THEN idString(row.id) ELSE row[f]

\* findMany({ where }): the rows equal to where on every field it names; all
\* rows when where names none
findMany(rows, where) ==
    {row \in rows : \A f \in DOMAIN where : fieldOf(row, f) = where[f]}

\* rows in the order the store returns them (the order of insertion)
RECURSIVE inOrder(_)
inOrder(rows) ==
    IF rows = {} THEN <<>>
    ELSE LET first == CHOOSE x \in rows : \A y \in rows : x.id <= y.id
         IN <<first>> \o inOrder(rows \ {first})

\* what a get handler's promise settles with: the resources, or the error
Got(r) ==
    [op |-> r.op, pc |-> "done", getObj |-> r.getObj, reads |-> r.reads,
     Resources |-> r.Resources, err |-> "", disconnects |-> 1]

\* A filter that is not supported throws before main() is called: no store
\* call, no prisma.$disconnect().
FailedGet(r, msg) ==
    [op |-> r.op, pc |-> "failed", getObj |-> r.getObj, reads |-> r.reads,
     Resources |-> <<>>, err |-> msg,
     disconnects |-> IF r.reads = 0 THEN 0 ELSE 1]

\* a get handler called with getObj; reads counts the store queries issued
GetRequest(op, getObj) ==
    [op |-> op, pc |-> "start", getObj |-> getObj, reads |-> 0,
     Resources |-> <<>>, err |-> ""]

\* -------------------------------------------------------------- getUsers
\* (mutant of userFilter) the unique filter built from { id: getObj.value },
\* as in getGroups
userFilterById(getObj) ==
    IF getObj.operator # NoAttr
    THEN IF getObj.operator = "eq" /\ getObj.attribute \in {"id", "userName", "externalId"}
         THEN [thrown |-> FALSE, err |-> "",
               where |-> outbound([id |-> getObj.value], UserMap)]
         ELSE [thrown |-> TRUE, where |-> <<>>,
               err |-> "not supporting simpel filtering"]
    ELSE IF getObj.rawFilter # NoAttr
    THEN [thrown |-> TRUE, where |-> <<>>,
          err |-> "not error: supporting advanced filtering"]
    ELSE [thrown |-> FALSE, err |-> "", where |-> <<>>]

\* (mutant of userFilter) the branches that throw left empty, as in getGroups
userFilterFallsThrough(getObj) ==
    IF getObj.operator = "eq" /\ getObj.attribute \in {"id", "userName", "externalId"}
    THEN [thrown |-> FALSE, err |-> "",
          where |-> outbound([userName |-> getObj.value], UserMap)]
    ELSE [thrown |-> FALSE, err |-> "", where |-> <<>>]

\* the mandatory if-else logic of getUsers
userFilter(getObj) ==
    IF getObj.operator # NoAttr
    THEN IF getObj.operator = "eq" /\ getObj.attribute \in {"id", "userName", "externalId"}
         THEN [thrown |-> FALSE, err |-> "",
               where |-> outbound([userName |-> getObj.value], UserMap)]
         ELSE IF getObj.operator = "eq" /\ getObj.attribute = "group.value"
         THEN [thrown |-> TRUE, where |-> <<>>,
               err |-> "not supporting groups member of user filtering"]
         ELSE [thrown |-> TRUE, where |-> <<>>,
               err |-> "not supporting simpel filtering"]
    ELSE IF getObj.rawFilter # NoAttr
    THEN [thrown |-> TRUE, where |-> <<>>,
          err |-> "not error: supporting advanced filtering"]
    ELSE [thrown |-> FALSE, err |-> "", where |-> <<>>]

\* the filter, then userSchema.findMany({ where: filter })
guFind(p, getObj) ==
    /\ req[p].pc = "idle"
    /\ LET r == GetRequest("getUsers", getObj)
           f == userFilter(getObj) IN
       \/ /\ f.thrown
          /\ req' = [req EXCEPT ![p] = FailedGet(r, f.err)]
       \/ /\ ~f.thrown
          /\ req' = [req EXCEPT ![p] = FailedGet([r EXCEPT !.reads = 1], "store error")]
       \/ /\ ~f.thrown
          /\ LET rows == inOrder(findMany(users, f.where)) IN
             req' = [req EXCEPT ![p] =
                 IF rows = <<>> THEN Got([r EXCEPT !.reads = 1])
                 ELSE [r EXCEPT !.pc = "guRow", !.reads = 1] @@ [rows |-> rows, row |-> 1]]
    /\ UNCHANGED <<users, groups, nextUserId, nextGroupId, pending>>

\* (mutant of groupsList) the groups read without the where clause
groupsListUnfiltered(gs, scimUser) ==
    LET found == inOrder(gs) IN
    [k \in DOMAIN found |->
        LET formattedGroup == inbound(found[k], GroupMap) IN
        [value |-> formattedGroup.id, display |-> formattedGroup.displayName]]

\* the groups attribute of a user resource: { value, display } of every group
\* findMany({ where: { members: { has: scimUser.id } } }) returns
groupsList(gs, scimUser) ==
    LET found == inOrder(groupsHaving(gs, scimUser.id)) IN
    [k \in DOMAIN found |->
        LET formattedGroup == inbound(found[k], GroupMap) IN
        [value |-> formattedGroup.id, display |-> formattedGroup.displayName]]

\* (mutant of guRow) no `scimUser.id = scimUser.userName`: the resource keeps
\* the internal id
guRowKeepsId(p) ==
    /\ req[p].pc = "guRow"
    /\ LET r == req[p]
           scimUser == inbound(r.rows[r.row], UserMap)
           resource == [id |-> idString(scimUser.id), userName |-> scimUser.userName,
                        groups |-> groupsList(groups, scimUser)]
           next == [r EXCEPT !.reads = @ + 1, !.row = @ + 1,
                             !.Resources = Append(@, resource)] IN
       \/ req' = [req EXCEPT ![p] = FailedGet([r EXCEPT !.reads = @ + 1], "store error")]
       \/ req' = [req EXCEPT ![p] =
              IF r.row = Len(r.rows) THEN Got(next) ELSE next]
    /\ UNCHANGED <<users, groups, nextUserId, nextGroupId, pending>>

\* (mutant of guRow) the loop left after its first pass
guRowFirstOnly(p) ==
    /\ req[p].pc = "guRow"
    /\ LET r == req[p]
           scimUser == inbound(r.rows[r.row], UserMap)
           resource == [id |-> scimUser.userName, userName |-> scimUser.userName,
                        groups |-> groupsList(groups, scimUser)]
           next == [r EXCEPT !.reads = @ + 1, !.row = @ + 1,
                             !.Resources = Append(@, resource)] IN
       \/ req' = [req EXCEPT ![p] = FailedGet([r EXCEPT !.reads = @ + 1], "store error")]
       \/ req' = [req EXCEPT ![p] = Got(next)]
    /\ UNCHANGED <<users, groups, nextUserId, nextGroupId, pending>>

\* one pass of `for (const row in rows)`: the row mapped inbound, its groups
\* read, its id replaced by its userName
guRow(p) ==
    /\ req[p].pc = "guRow"
    /\ LET r == req[p]
           scimUser == inbound(r.rows[r.row], UserMap)
           resource == [id |-> scimUser.userName, userName |-> scimUser.userName,
                        groups |-> groupsList(groups, scimUser)]
           next == [r EXCEPT !.reads = @ + 1, !.row = @ + 1,
                             !.Resources = Append(@, resource)] IN
       \/ req' = [req EXCEPT ![p] = FailedGet([r EXCEPT !.reads = @ + 1], "store error")]
       \/ req' = [req EXCEPT ![p] =
              IF r.row = Len(r.rows) THEN Got(next) ELSE next]
    /\ UNCHANGED <<users, groups, nextUserId, nextGroupId, pending>>

\* ------------------------------------------------------------- getGroups
\* (mutant of groupFilter) the members.value shape taken for a unique filter
groupFilterMembersAsUnique(getObj) ==
    IF /\ getObj.operator # NoAttr
       /\ getObj.operator = "eq"
       /\ getObj.attribute \in {"id", "displayName", "externalId", "members.value"}
    THEN [defined |-> TRUE, where |-> outbound([id |-> getObj.value], GroupMap)]
    ELSE [defined |-> FALSE, where |-> <<>>]

\* the mandatory if-else logic of getGroups: only the unique filter assigns
\* `filter`, no branch throws
groupFilter(getObj) ==
    IF /\ getObj.operator # NoAttr
       /\ getObj.operator = "eq"
       /\ getObj.attribute \in {"id", "displayName", "externalId"}
    THEN [defined |-> TRUE, where |-> outbound([id |-> getObj.value], GroupMap)]
    ELSE [defined |-> FALSE, where |-> <<>>]

\* groupSchema.findMany({ where: filter }); `where: undefined` selects all
ggFind(p, getObj) ==
    /\ req[p].pc = "idle"
    /\ LET r == GetRequest("getGroups", getObj)
           f == groupFilter(getObj) IN
       \/ req' = [req EXCEPT ![p] = FailedGet([r EXCEPT !.reads = 1], "store error")]
       \/ LET rows == inOrder(IF f.defined THEN findMany(groups, f.where) ELSE groups) IN
          req' = [req EXCEPT ![p] =
              IF rows = <<>> THEN Got([r EXCEPT !.reads = 1])
              ELSE [r EXCEPT !.pc = "ggRow", !.reads = 1] @@ [rows |-> rows, row |-> 1]]
    /\ UNCHANGED <<users, groups, nextUserId, nextGroupId, pending>>

\* the members attribute of a group resource: { value, display } of every
\* user findMany({ where: { id: { in: row.members } } }) returns
membersList(us, row) ==
    LET found == inOrder({u \in us : includes(row.members, u.id)}) IN
    [k \in DOMAIN found |->
        LET formattedUser == inbound(found[k], UserMap) IN
        [value |-> formattedUser.id, display |-> formattedUser.userName]]

\* (mutant of ggRow) the members that are no stored user are taken out of
\* the stored row on the way
ggRowPrunes(p) ==
    /\ req[p].pc = "ggRow"
    /\ LET r == req[p]
           scimGroup == inbound(r.rows[r.row], GroupMap)
           resource == [id |-> scimGroup.id, displayName |-> scimGroup.displayName,
                        members |-> membersList(users, r.rows[r.row])]
           next == [r EXCEPT !.reads = @ + 1, !.row = @ + 1,
                             !.Resources = Append(@, resource)]
           stored(m) == \E u \in users : u.id = m IN
       \/ /\ req' = [req EXCEPT ![p] = FailedGet([r EXCEPT !.reads = @ + 1], "store error")]
          /\ UNCHANGED groups
       \/ /\ req' = [req EXCEPT ![p] =
                 IF r.row = Len(r.rows) THEN Got(next) ELSE next]
          /\ groups' = {[g EXCEPT !.members = SelectSeq(@, stored)] : g \in groups}
    /\ UNCHANGED <<users, nextUserId, nextGroupId, pending>>

\* one pass of `for (const row in rows)`: the row mapped inbound, its members
\* looked up
ggRow(p) ==
    /\ req[p].pc = "ggRow"
    /\ LET r == req[p]
           scimGroup == inbound(r.rows[r.row], GroupMap)
           resource == [id |-> scimGroup.id, displayName |-> scimGroup.displayName,
                        members |-> membersList(users, r.rows[r.row])]
           next == [r EXCEPT !.reads = @ + 1, !.row = @ + 1,
                             !.Resources = Append(@, resource)] IN
       \/ req' = [req EXCEPT ![p] = FailedGet([r EXCEPT !.reads = @ + 1], "store error")]
       \/ req' = [req EXCEPT ![p] =
              IF r.row = Len(r.rows) THEN Got(next) ELSE next]
    /\ UNCHANGED <<users, groups, nextUserId, nextGroupId, pending>>

\* ---------------------------------------------------------------- caller
\* The caller takes the outcome; the slot is free for the next request.
Return(p) ==
    /\ req[p].pc \in {"done", "failed"}
    /\ req' = [req EXCEPT ![p] = Idle]
    /\ UNCHANGED <<users, groups, nextUserId, nextGroupId, pending>>

GroupIds == 1..MaxGroups

\* an id a caller may put in attrObj: not the id of the group it addresses
AttrIds == {MaxGroups + 1}

\* an id a caller may put in the attrObj of modifyUser: the id of no user
UserAttrIds == {MaxUsers + 1}

\* attrObj of modifyUser: with or without a userName and an id of ids
UserAttrObjs(ids) ==
    {<<>>} \cup [userName : Names] \cup [id : ids]
    \cup [id : ids, userName : Names]

\* attrObj of modifyGroup: member edits, with or without a displayName and
\* an id
AttrObjs(n) ==
    LET M == EditSeqs(n) IN
    [members : M] \cup [members : M, displayName : GroupNames]
    \cup [members : M, id : AttrIds]
    \cup [members : M, id : AttrIds, displayName : GroupNames]

\* a request of a caller that awaits each request arrives in slot p
Starts(p) ==
    \/ \E name \in Names : createUser(p, name)
    \/ \E name \in Names : duFind(p, name)
    \/ \E name \in Names, attrObj \in UserAttrObjs({}) : muFind(p, name, attrObj)
    \/ \E groupObj \in GroupObjs :
           createGroup(p, groupObj) /\ nextGroupId' <= MaxGroups + 1
    \/ \E gid \in GroupIds : dgFind(p, gid)
    \/ \E gid \in GroupIds, attrObj \in AttrObjs(MaxEdits) : mgFind(p, gid, attrObj)

\* a request of one of the concurrent callers arrives in slot p: they create
\* and delete users and groups and edit memberships
StartsConc(p) ==
    \/ \E name \in Names : createUser(p, name)
    \/ \E name \in Names : duFind(p, name)
    \/ \E groupObj \in GroupObjs :
           createGroup(p, groupObj) /\ nextGroupId' <= MaxGroups + 1
    \/ \E gid \in GroupIds : dgFind(p, gid)
    \/ \E gid \in GroupIds, attrObj \in [members : EditSeqs(MaxConcEdits)] :
           mgFind(p, gid, attrObj)

\* a request in slot p resumes after a store round trip, or its caller
\* takes the outcome
Steps(p) ==
    \/ duGroups(p)
    \/ duDelete(p)
    \/ dgDelete(p)
    \/ mgEdit(p)
    \/ mgUpdate(p)
    \/ Return(p)

Background ==
    \/ \E u \in pending : pruneLand(u)
    \/ \E u \in pending : pruneFault(u)

\* one caller, which awaits each request before it sends the next
Next ==
    \/ \E p \in Client : Starts(p)
    \/ \E p \in Client : muUpdate(p)
    \/ \E p \in Client : Steps(p)
    \/ Background

Spec == Init /\ [][Next]_vars

\* a read arrives in slot p
Reads(p) ==
    \/ \E getObj \in GetObjs : guFind(p, getObj)
    \/ \E getObj \in GetObjs : ggFind(p, getObj)

\* a read in slot p resumes after a store round trip
ReadSteps(p) ==
    \/ guRow(p)
    \/ ggRow(p)

\* one caller, which awaits each request, with reads among its requests
NextRead ==
    \/ \E p \in Client : StartsConc(p)
    \/ \E p \in Client : Reads(p)
    \/ \E p \in Client : Steps(p)
    \/ \E p \in Client : ReadSteps(p)
    \/ Background

SpecRead == Init /\ [][NextRead]_vars

\* concurrent callers
NextConc ==
    \/ \E p \in Procs : StartsConc(p)
    \/ \E p \in Procs : Steps(p)
    \/ Background

SpecConc == Init /\ [][NextConc]_vars

\* a request of a caller that keeps several groups arrives in slot p
StartsFrame(p) ==
    \/ \E name \in Names : createUser(p, name)
    \/ \E groupObj \in GroupObjs :
           createGroup(p, groupObj) /\ nextGroupId' <= MaxFrameGroups + 1
    \/ \E gid \in 1..MaxFrameGroups : dgFind(p, gid)
    \/ \E gid \in 1..MaxFrameGroups, attrObj \in [members : EditSeqs(MaxConcEdits)] :
           mgFind(p, gid, attrObj)

StepsFrame(p) ==
    \/ dgDelete(p)
    \/ mgEdit(p)
    \/ mgUpdate(p)
    \/ Return(p)

\* one caller, which awaits each request, with several groups in the store
NextFrame ==
    \/ \E p \in Client : StartsFrame(p)
    \/ \E p \in Client : StepsFrame(p)

SpecFrame == Init /\ [][NextFrame]_vars

\* attrObj of a modifyGroup that adds one member
AddObjs == {[members |-> <<[value |-> name, operation |-> "add"]>>] : name \in Names}

\* a request of one of the concurrent callers that only add arrives in slot p
StartsAdds(p) ==
    \/ \E name \in Names : createUser(p, name)
    \/ \E groupObj \in GroupObjs :
           createGroup(p, groupObj) /\ nextGroupId' <= MaxGroups + 1
    \/ \E gid \in GroupIds, attrObj \in AddObjs : mgFind(p, gid, attrObj)

StepsAdds(p) ==
    \/ mgEdit(p)
    \/ mgUpdate(p)
    \/ Return(p)

\* concurrent callers that create users and groups and add members
NextAdds ==
    \/ \E p \in Procs : StartsAdds(p)
    \/ \E p \in Procs : StepsAdds(p)

SpecAdds == Init /\ [][NextAdds]_vars

\* a request of a caller that modifies users arrives in slot p; the attrObj
\* of a modifyUser may carry an id
StartsUser(p) ==
    \/ \E name \in Names : createUser(p, name)
    \/ \E groupObj \in GroupObjs :
           createGroup(p, groupObj) /\ nextGroupId' <= MaxGroups + 1
    \/ \E gid \in GroupIds, attrObj \in AddObjs : mgFind(p, gid, attrObj)
    \/ \E name \in Names, attrObj \in UserAttrObjs(UserAttrIds) :
           muFind(p, name, attrObj)

StepsUser(p) ==
    \/ muUpdate(p)
    \/ mgEdit(p)
    \/ mgUpdate(p)
    \/ Return(p)

\* one caller, which awaits each request, and modifies users
NextUser ==
    \/ \E p \in Client : StartsUser(p)
    \/ \E p \in Client : StepsUser(p)

SpecUser == Init /\ [][NextUser]_vars

\* a request of any of the eight operations arrives in slot p
StartsLive(p) ==
    \/ StartsConc(p)
    \/ \E name \in Names, attrObj \in UserAttrObjs({}) : muFind(p, name, attrObj)
    \/ Reads(p)

\* the handler in slot p resumes after a store call has returned or faulted
Resumes(p) ==
    \/ duGroups(p)
    \/ duDelete(p)
    \/ muUpdate(p)
    \/ dgDelete(p)
    \/ mgEdit(p)
    \/ mgUpdate(p)
    \/ guRow(p)
    \/ ggRow(p)

NextLive ==
    \/ \E p \in Client : StartsLive(p)
    \/ \E p \in Client : Resumes(p)
    \/ \E p \in Client : Return(p)
    \/ Background

\* one caller of the eight operations; every store call a handler waits for
\* returns or faults in the end
SpecLive ==
    Init /\ [][NextLive]_vars /\ \A p \in Client : WF_vars(Resumes(p))

\* ------------------------------------------------------ mapper round trip
\* identifier values of store rows
RowIds == {"1", "2"}

\* store rows with every field of the user map
UserRows ==
    [id : RowIds, _id : RowIds, username : Names, active : BOOLEAN,
     password : {"pw"}, givenName : {"Al", "Bo"}, familyName : {"Ice"},
     displayName : Names, email : {"al@example.org"}, homePhone : {"555-01"},
     postalCode : {"0150"}, streetAddress : {"Main St"},
     telephoneNumber : {"555-02"}]

\* store rows with every field of the group map
GroupRows == [id : RowIds, _id : RowIds, name : GroupNames]

\* config.map[kind]
mapOf(kind) == IF kind = "user" THEN UserMap ELSE GroupMap

\* a fully populated row R of one kind is about to be mapped
InitMap ==
    /\ users = {}
    /\ groups = {}
    /\ nextUserId = 1
    /\ nextGroupId = 1
    /\ pending = {}
    /\ \E kind \in {"user", "group"} :
         \E R \in (IF kind = "user" THEN UserRows ELSE GroupRows) :
            req = [p \in Procs |->
                     IF p \in Client
                     THEN [op |-> "map", pc |-> "toExternal", kind |-> kind, R |-> R]
                     ELSE Idle]

\* endpointMapper("inbound", R, config.map[kind])
toExternal(p) ==
    /\ req[p].op = "map" /\ req[p].pc = "toExternal"
    /\ req' = [req EXCEPT ![p] =
           [@ EXCEPT !.pc = "toInternal"]
           @@ [external |-> inbound(req[p].R, mapOf(req[p].kind))]]
    /\ UNCHANGED <<users, groups, nextUserId, nextGroupId, pending>>

\* endpointMapper("outbound", external, config.map[kind])
toInternal(p) ==
    /\ req[p].op = "map" /\ req[p].pc = "toInternal"
    /\ req' = [req EXCEPT ![p] =
           [@ EXCEPT !.pc = "done"]
           @@ [internal |-> outbound(req[p].external, mapOf(req[p].kind))]]
    /\ UNCHANGED <<users, groups, nextUserId, nextGroupId, pending>>

NextMap ==
    \/ \E p \in Client : toExternal(p)
    \/ \E p \in Client : toInternal(p)

SpecMap == InitMap /\ [][NextMap]_vars

\* =================================================================
\* Properties
\* =================================================================

\* The fold the membership contract describes: a delete removes the id from
\* the working list, any other edit appends the id unless it is there.
foldEdit(w, uid, operation) ==
    IF operation = "delete" THEN filterOut(w, uid)
    ELSE IF includes(w, uid) THEN w ELSE Append(w, uid)

RECURSIVE foldEdits(_, _, _, _)
foldEdits(w, edits, ids, k) ==
    IF k = 0 THEN w
    ELSE foldEdit(foldEdits(w, edits, ids, k - 1), ids[k], edits[k].operation)

\* the update of modifyGroup in slot p succeeds in this step
Persists(p) == req[p].pc = "mgUpdate" /\ req'[p].pc = "done"

\* the members of group gid in store gs are m
MembersAre(gs, gid, m) == \E g \in groupWhere(gs, gid) : g.members = m

\* C3: the members list modifyGroup persists is the left fold of the edits,
\* in input order, over the members list it read.
C3_PersistsFoldOfEdits ==
    [][\A p \in Procs :
         Persists(p) =>
           MembersAre(groups', req[p].gid,
                      foldEdits(req[p].orig, req[p].edits, req[p].ids,
                                Len(req[p].edits)))]_vars

\* C4: no group's stored members list holds an identifier twice.
C4_NoDuplicateMembers == \A g \in groups : NoDup(g.members)

\* C4 witness: a group holds two members after a request that deleted and
\* then added.
C4_Witness ==
    \E g \in groups : Len(g.members) = 2 /\ g.members[1] > g.members[2]

\* C1: once deleteUser has returned success, no group's stored members list
\* holds the deleted user's id, and listing the groups of that user is empty.
C1_DeleteThenList ==
    \A p \in Procs :
        (req[p].op = "deleteUser" /\ req[p].pc = "done") =>
            /\ \A g \in groups : ~includes(g.members, req[p].uid)
            /\ groupsHaving(groups, req[p].uid) = {}

\* the update deleteUser starts for group g, as it is kept while in flight
PruneOf(g, uid) == [gid |-> g.id, members |-> filterOut(g.members, uid)]

\* C2: in deleteUser, the membership update of every group holding the
\* user's id has been started before the delete of the user is issued: the
\* step after findMany starts one for every group that holds the id, and the
\* delete is only issued by a request that has started them all.
C2_PruneIssuedBeforeDelete ==
    [][\A p \in Procs :
         /\ (req[p].pc = "duGroups" /\ req'[p].pc = "duDelete") =>
                \A g \in groupsHaving(groups, req[p].uid) :
                    PruneOf(g, req[p].uid) \in pending'
         /\ (req[p].op = "deleteUser" /\ req[p].pc # "done" /\ req'[p].pc = "done") =>
                /\ req[p].pc = "duDelete"
                /\ \A g \in req[p].found : g.id \in req[p].issued]_vars

\* C2 witness: deleteUser is about to issue the delete of a user who was a
\* member of a group.
C2_Witness ==
    \E p \in Procs : req[p].pc = "duDelete" /\ req[p].found # {}

\* members after one modifyGroup request whose edits are k adds of user uid
AfterAdds(members, uid, k) ==
    newMembersOf(members, [j \in 1..k |-> [value |-> "", operation |-> "add"]],
                 [j \in 1..k |-> uid])

\* C6: adding a user twice, in one edit sequence or in two requests, gives
\* the members list that adding the user once gives.
C6_AddIsIdempotent ==
    /\ \A g \in groups : \A u \in users :
          /\ AfterAdds(g.members, u.id, 2) = AfterAdds(g.members, u.id, 1)
          /\ AfterAdds(AfterAdds(g.members, u.id, 1), u.id, 1)
                = AfterAdds(g.members, u.id, 1)
    /\ \A p \in Procs :
          LET r == req[p] IN
          (/\ r.op = "modifyGroup" /\ r.pc \in {"mgEdit", "mgUpdate"}
           /\ Len(r.ids) > 0
           /\ \A k \in 1..Len(r.ids) :
                 r.edits[k].operation = "add" /\ r.ids[k] = r.ids[1])
          => r.work = IF includes(r.orig, r.ids[1]) THEN r.orig
                      ELSE Append(r.orig, r.ids[1])

\* C6 witness: a request has applied the same add twice to a group the user
\* was not in, and holds the list with the id once.
C6_Witness ==
    \E p \in Procs :
        /\ req[p].pc = "mgUpdate" /\ Len(req[p].ids) = 2
        /\ req[p].edits[1].operation = "add" /\ req[p].edits[2].operation = "add"
        /\ req[p].ids[1] = req[p].ids[2]
        /\ ~includes(req[p].orig, req[p].ids[1])
        /\ req[p].work = Append(req[p].orig, req[p].ids[1])

\* C7: an add of an existing user who is not a member persists the previous
\* list with the user's internal id appended, and when a later deleteUser of
\* that user returns success every group that held the id holds its list
\* without it.
C7_AddAppendsDeleteRestores ==
    [][\A p \in Procs :
         /\ (/\ Persists(p) /\ Len(req[p].edits) = 1
             /\ req[p].edits[1].operation = "add"
             /\ ~includes(req[p].orig, req[p].ids[1]))
            => MembersAre(groups', req[p].gid, Append(req[p].orig, req[p].ids[1]))
         /\ (req[p].op = "deleteUser" /\ req[p].pc = "duDelete" /\ req'[p].pc = "done")
            => \A g \in req[p].found :
                   groupWhere(groups', g.id) # {} =>
                       MembersAre(groups', g.id, filterOut(g.members, req[p].uid))]_vars

\* the request in slot p is one delete edit of a user who is not a member
LoneDeleteOfNonMember(r) ==
    /\ r.pc \in {"mgEdit", "mgUpdate"}
    /\ Len(r.edits) = 1 /\ r.edits[1].operation = "delete"
    /\ Len(r.ids) = 1 /\ ~includes(r.orig, r.ids[1])

\* C8: a modifyGroup whose only edit deletes an existing user who is not a
\* member does not fail on the edit, and persists the members list it read.
C8_DeleteOfNonMemberIsNoOp ==
    [][\A p \in Procs :
         /\ (/\ req[p].pc = "mgEdit" /\ Len(req[p].edits) = 1
             /\ req[p].edits[1].operation = "delete"
             /\ userWhere(users, req[p].edits[1].value) # {}
             /\ req'[p].pc = "failed")
            => req'[p].err = "store error"
         /\ (LoneDeleteOfNonMember(req[p]) /\ Persists(p))
            => /\ MembersAre(groups', req[p].gid, req[p].orig)
               /\ MembersAre(groups, req[p].gid, req[p].orig) =>
                      \A g \in groupWhere(groups, req[p].gid) :
                      \A h \in groupWhere(groups', req[p].gid) : h.members = g.members]_vars

\* C8 witness: such a request, on a group that has a member, is about to
\* persist.
C8_Witness ==
    \E p \in Procs :
        /\ LoneDeleteOfNonMember(req[p]) /\ req[p].pc = "mgUpdate"
        /\ req[p].orig # <<>>

\* C9: an edit, add or delete, whose value is the userName of no user makes
\* modifyGroup fail (with the not-found error, unless the lookup itself
\* faults); modifyGroup reaches its update only with every edit resolved to
\* a user.
C9_UnknownMemberFails ==
    [][\A p \in Procs :
         /\ (/\ req[p].pc = "mgEdit"
             /\ userWhere(users, req[p].edits[req[p].i].value) = {}
             /\ req'[p] # req[p])
            => /\ req'[p].pc = "failed"
               /\ req'[p].err \in {"User not found", "store error"}
               /\ groups' = groups
         /\ (req[p].pc = "mgEdit" /\ req'[p].pc \in {"mgEdit", "mgUpdate"} /\ req'[p] # req[p])
            => \E u \in userWhere(users, req[p].edits[req[p].i].value) :
                   req'[p].ids = Append(req[p].ids, u.id)]_vars

\* C9 witness: a modifyGroup has failed on an unknown member.
C9_Witness ==
    \E p \in Procs :
        req[p].op = "modifyGroup" /\ req[p].pc = "failed" /\ req[p].err = "User not found"

\* the request that arrives in slot p in this step names no stored record
ArrivesForAbsent(p) ==
    /\ req[p].pc = "idle"
    /\ \/ /\ req'[p].op \in {"modifyUser", "deleteUser"}
          /\ userWhere(users, req'[p].name) = {}
       \/ /\ req'[p].op \in {"modifyGroup", "deleteGroup"}
          /\ groupWhere(groups, req'[p].gid) = {}

\* C10: modifyUser, deleteUser, modifyGroup and deleteGroup on an identifier
\* that resolves to no record fail with the not-found error (unless the
\* lookup itself faults) and start no store write.
C10_AbsentIsNotFound ==
    [][\A p \in Procs :
         ArrivesForAbsent(p) =>
            /\ req'[p].pc = "failed"
            /\ req'[p].err \in
                  {IF req'[p].op \in {"modifyUser", "deleteUser"}
                   THEN "User not found" ELSE "Group not found", "store error"}
            /\ req'[p].writes = 0
            /\ users' = users /\ groups' = groups /\ pending' = pending]_vars

\* C10 witness: a deleteUser of an unknown userName has failed, with other
\* records in the store.
C10_Witness ==
    \E p \in Procs :
        /\ req[p].op = "deleteUser" /\ req[p].pc = "failed"
        /\ req[p].err = "User not found" /\ req[p].writes = 0
        /\ users # {} /\ groups # {}

\* C5: whenever no request is in flight, every identifier in every group's
\* members list is the id of a stored user.
C5_MembersExistWhenQuiet ==
    ((\A p \in Procs : req[p].pc = "idle") /\ pending = {}) =>
        \A g \in groups : \A k \in DOMAIN g.members :
            \E u \in users : u.id = g.members[k]

\* slot q holds a delete of the record slot p is about to delete, and has
\* deleted it
DeletedBy(p, q) ==
    /\ q # p /\ req[q].pc = "done"
    /\ \/ /\ req[p].pc = "duDelete" /\ req[q].op = "deleteUser"
          /\ req[q].uid = req[p].uid
       \/ /\ req[p].pc = "dgDelete" /\ req[q].op = "deleteGroup"
          /\ req[q].gid = req[p].gid

\* the error of a delete of an absent record
NotFoundOf(op) == IF op = "deleteUser" THEN "User not found" ELSE "Group not found"

\* C11: of two deletes of one user (or one group) that both passed the
\* existence check, the one that reaches the store second fails with the
\* error of a delete of an absent record (unless its call faults) and
\* deletes nothing; the two never both return success.
C11_SecondDeleteIsNotFound ==
    [][/\ \A p, q \in Procs :
            (DeletedBy(p, q) /\ req'[p].pc # req[p].pc) =>
                /\ req'[p].pc = "failed"
                /\ req'[p].err \in {NotFoundOf(req[p].op), "store error"}
                /\ users' = users /\ groups' = groups
       /\ \A p, q \in Procs :
            (/\ p # q /\ req'[p].pc = "done" /\ req'[q].pc = "done"
             /\ req'[p].op = req'[q].op)
            => /\ req'[p].op = "deleteUser" => req'[p].uid # req'[q].uid
               /\ req'[p].op = "deleteGroup" => req'[p].gid # req'[q].gid]_vars

\* C11 witness: two deletes of one user have both passed the check; one has
\* returned success and the other the not-found error.
C11_Witness ==
    \E p, q \in Procs :
        /\ req[p].op = "deleteUser" /\ req[q].op = "deleteUser"
        /\ req[p].pc = "done" /\ req[q].pc = "failed"
        /\ req[q].uid # 0 /\ req[q].uid = req[p].uid
        /\ req[q].err = "User not found"

\* C12: an operation one of whose store calls has faulted does not return
\* success; in particular deleteUser does not return success once one of the
\* membership updates it started has faulted.
C12_FaultFailsOperation ==
    [][\A p \in Procs :
         (req[p].pc = "duDelete" /\ req[p].faulted) => req'[p].pc # "done"]_vars

\* getObj asks for everything: no operator and no raw filter
Listing(getObj) == getObj.operator = NoAttr /\ getObj.rawFilter = NoAttr

\* getObj is operator eq on one of the attributes named
EqOn(getObj, attributes) ==
    getObj.operator = "eq" /\ getObj.attribute \in attributes

\* the errors of the filter shapes getUsers does not support
UnsupportedFilterErrors ==
    {"not supporting groups member of user filtering",
     "not supporting simpel filtering",
     "not error: supporting advanced filtering"}

\* C13: getUsers with a predicate that is neither a listing nor eq on id,
\* userName or externalId fails with an unsupported-filter error and has
\* issued no store query.
C13_GetUsersRejectsUnsupported ==
    \A p \in Procs :
        (/\ req[p].op = "getUsers"
         /\ ~Listing(req[p].getObj)
         /\ ~EqOn(req[p].getObj, {"id", "userName", "externalId"}))
        => /\ req[p].pc = "failed"
           /\ req[p].err \in UnsupportedFilterErrors
           /\ req[p].reads = 0

\* C13 witness: getUsers with eq on group.value has failed, with users stored.
C13_Witness ==
    \E p \in Procs :
        /\ req[p].op = "getUsers" /\ req[p].pc = "failed"
        /\ EqOn(req[p].getObj, {"group.value"})
        /\ req[p].reads = 0 /\ users # {}

\* C14: getGroups with a predicate that is neither a listing nor eq on id,
\* displayName or externalId (the members.value shape apart) never returns a
\* result: it fails, with an unsupported-filter error and no store query
\* issued.
C14_GetGroupsRejectsUnsupported ==
    \A p \in Procs :
        (/\ req[p].op = "getGroups"
         /\ ~Listing(req[p].getObj)
         /\ ~EqOn(req[p].getObj, {"id", "displayName", "externalId", "members.value"}))
        => /\ req[p].pc # "done"
           /\ (req[p].pc = "failed" /\ req[p].reads = 0) =>
                 req[p].err \in UnsupportedFilterErrors

\* the resources of the request are one for each of the records, by the
\* value of attribute key
OneForEach(Resources, key, values) ==
    /\ Len(Resources) = Cardinality(values)
    /\ \A v \in values : \E k \in DOMAIN Resources : Resources[k][key] = v

\* getGroups in slot p has returned for eq on members.value
ReturnedForMember(p) ==
    /\ req[p].op = "getGroups" /\ req[p].pc = "done"
    /\ EqOn(req[p].getObj, {"members.value"})

C16_GetUsersByUserName ==
    \A p \in Procs :
        (/\ req[p].op = "getUsers" /\ req[p].pc = "done"
         /\ EqOn(req[p].getObj, {"id", "userName", "externalId"}))
        => /\ OneForEach(req[p].Resources, "userName",
                         {u.username : u \in userWhere(users, req[p].getObj.value)})
           /\ Len(req[p].Resources) <= 1

\* C16 witness: eq on id with the userName of one of two stored users has
\* returned that user.
C16_Witness ==
    \E p \in Procs :
        /\ req[p].op = "getUsers" /\ req[p].pc = "done"
        /\ EqOn(req[p].getObj, {"id"})
        /\ Len(req[p].Resources) = 1 /\ Cardinality(users) = 2
        /\ req[p].Resources[1].userName = req[p].getObj.value

\* C17: getGroups with eq on id, displayName or externalId returns exactly
\* the stored groups whose displayName is the value.
C17_GetGroupsByDisplayName ==
    \A p \in Procs :
        (/\ req[p].op = "getGroups" /\ req[p].pc = "done"
         /\ EqOn(req[p].getObj, {"id", "displayName", "externalId"}))
        => OneForEach(req[p].Resources, "displayName",
                      {g.name : g \in {h \in groups : h.name = req[p].getObj.value}})

\* C18: getUsers and getGroups called with no operator and no raw filter
\* return exactly one resource for every record of that kind in the store.
C18_ListingReturnsEveryRecord ==
    \A p \in Procs :
        /\ (req[p].op = "getUsers" /\ req[p].pc = "done" /\ Listing(req[p].getObj))
           => OneForEach(req[p].Resources, "userName", {u.username : u \in users})
        /\ (req[p].op = "getGroups" /\ req[p].pc = "done" /\ Listing(req[p].getObj))
           => OneForEach(req[p].Resources, "id", {g.id : g \in groups})

\* C18 witness: a listing of two stored users has returned two resources.
C18_Witness ==
    \E p \in Procs :
        /\ req[p].op = "getUsers" /\ req[p].pc = "done" /\ Listing(req[p].getObj)
        /\ Len(req[p].Resources) = 2

\* getUsers in slot p pushes a resource in this step
PushesUser(p) ==
    /\ req[p].pc = "guRow"
    /\ Len(req'[p].Resources) = Len(req[p].Resources) + 1

\* C19: the groups attribute of a user resource getUsers returns has an entry
\* for a group if and only if the user's internal id is in the group's stored
\* members list when the groups are read.
C19_GroupsOfUserAreItsGroups ==
    [][\A p \in Procs :
         PushesUser(p) =>
            LET row == req[p].rows[req[p].row]
                resource == req'[p].Resources[Len(req'[p].Resources)] IN
            /\ resource.userName = row.username
            /\ \A g \in groups :
                  (\E k \in DOMAIN resource.groups : resource.groups[k].value = g.id)
                  <=> includes(g.members, row.id)
            /\ \A k \in DOMAIN resource.groups :
                  \E g \in groups : resource.groups[k] = [value |-> g.id, display |-> g.name]]_vars

\* C19 witness: getUsers has returned two users, one with a group and one
\* with none, while a group is stored.
C19_Witness ==
    \E p \in Procs :
        /\ req[p].op = "getUsers" /\ req[p].pc = "done"
        /\ \E j, k \in DOMAIN req[p].Resources :
              req[p].Resources[j].groups # <<>> /\ req[p].Resources[k].groups = <<>>

\* getGroups in slot p pushes a resource in this step
PushesGroup(p) ==
    /\ req[p].pc = "ggRow"
    /\ Len(req'[p].Resources) = Len(req[p].Resources) + 1

\* C20: the members attribute of a group resource getGroups returns has one
\* { value, display } entry for each identifier in the members list of the
\* group as it was read.
C20_MembersOfGroupAreItsMembers ==
    [][\A p \in Procs :
         PushesGroup(p) =>
            LET row == req[p].rows[req[p].row]
                resource == req'[p].Resources[Len(req'[p].Resources)] IN
            /\ Len(resource.members) = Len(row.members)
            /\ \A k \in DOMAIN row.members :
                  \E j \in DOMAIN resource.members :
                      resource.members[j].value = row.members[k]]_vars

\* getObj of a read by eq on id
EqOnId(value) ==
    [attribute |-> "id", operator |-> "eq", value |-> value, rawFilter |-> "raw"]

\* C21: the id getUsers returns for a record is one under which modifyUser,
\* deleteUser and a read by eq on id find that record and no other; the id
\* getGroups returns is one under which modifyGroup, deleteGroup and a read
\* by eq on id find that group and no other.
C21_ReturnedIdAddressesRecord ==
    [][\A p \in Procs :
         /\ PushesUser(p) =>
              LET row == req[p].rows[req[p].row]
                  resource == req'[p].Resources[Len(req'[p].Resources)] IN
              /\ userWhere(users, resource.id) = {row}
              /\ findMany(users, userFilter(EqOnId(resource.id)).where) = {row}
         /\ PushesGroup(p) =>
              LET row == req[p].rows[req[p].row]
                  resource == req'[p].Resources[Len(req'[p].Resources)]
                  stored == {g \in groups : g.id = row.id} IN
              /\ Cardinality(stored) = 1
              /\ groupWhere(groups, resource.id) = stored
              /\ findMany(groups, groupFilter(EqOnId(idString(resource.id))).where)
                    = stored]_vars

\* C21 witness: a read by eq on id has returned one of two stored users, a
\* member of a group.
C21_Witness ==
    \E p \in Procs :
        /\ req[p].op = "getUsers" /\ req[p].pc = "done"
        /\ EqOn(req[p].getObj, {"id"}) /\ Cardinality(users) = 2
        /\ Len(req[p].Resources) = 1 /\ req[p].Resources[1].groups # <<>>

\* createUser arrives in slot p in this step for a userName that is taken
CreatesTaken(p) ==
    /\ req[p].pc = "idle" /\ req'[p].op = "createUser"
    /\ userWhere(users, req'[p].name) # {}

\* C22: createUser with the userName of a stored user fails, with the
\* duplicate-key error unless the store rejects the write for another
\* reason, and the user records are as they were: the stored user unchanged
\* and no second record.
C22_DuplicateUserRejected ==
    [][\A p \in Procs :
         CreatesTaken(p) =>
            /\ req'[p].pc = "failed"
            /\ req'[p].err \in {"Duplicate key", "Error at field"}
            /\ users' = users /\ nextUserId' = nextUserId]_vars

\* C22 witness: a createUser has failed with the duplicate-key error while
\* the user of that userName, and one more id to give, are in the store.
C22_Witness ==
    \E p \in Procs :
        /\ req[p].op = "createUser" /\ req[p].pc = "failed"
        /\ req[p].err = "Duplicate key"
        /\ userWhere(users, req[p].name) # {} /\ nextUserId <= MaxUsers

\* createUser or createGroup arrives in slot p in this step
Creates(p) ==
    req[p].pc = "idle" /\ req'[p].op \in {"createUser", "createGroup"}

\* C23: a create that the store rejects fails with the duplicate-key error
\* (for a user: when the userName is taken) or with the field error, and
\* adds no record.
C23_RejectedCreateAddsNothing ==
    [][\A p \in Procs :
         (Creates(p) /\ req'[p].pc # "done") =>
            /\ req'[p].pc = "failed"
            /\ req'[p].err \in {"Duplicate key", "Error at field"}
            /\ (req'[p].op = "createUser" /\ req'[p].err = "Duplicate key")
                  => userWhere(users, req'[p].name) # {}
            /\ users' = users /\ groups' = groups
            /\ nextUserId' = nextUserId /\ nextGroupId' = nextGroupId]_vars

\* C23 witness: a createGroup has failed with the field error, with a group
\* stored.
C23_Witness ==
    \E p \in Procs :
        /\ req[p].op = "createGroup" /\ req[p].pc = "failed"
        /\ req[p].err = "Error at field" /\ groups # {}

\* createGroup in slot p succeeds in this step
CreatesGroup(p) ==
    req[p].pc = "idle" /\ req'[p].op = "createGroup" /\ req'[p].pc = "done"

\* C24: the group createGroup adds to the store has an empty members list,
\* whatever members the request carries.
C24_CreatedGroupHasNoMembers ==
    [][\A p \in Procs :
         CreatesGroup(p) =>
            /\ Cardinality(groups' \ groups) = 1
            /\ \A g \in groups' \ groups :
                  /\ g.id = req'[p].gid
                  /\ g.name = req'[p].groupObj.displayName
                  /\ g.members = <<>>]_vars

\* C24 witness: a createGroup whose request carried a member has succeeded.
C24_Witness ==
    \E p \in Procs :
        /\ req[p].op = "createGroup" /\ req[p].pc = "done"
        /\ req[p].groupObj.members # <<>>
        /\ \E g \in groupWhere(groups, req[p].gid) : g.members = <<>>

\* C25: a step of modifyGroup never changes the id of a stored group, also
\* when attrObj carries an id.
C25_ModifyGroupKeepsId ==
    [][\A p \in Procs :
         (req[p].op = "modifyGroup" /\ req'[p] # req[p]) =>
            /\ {g.id : g \in groups'} = {g.id : g \in groups}
            /\ req'[p].pc = "done" => groupWhere(groups', req[p].gid) # {}]_vars

\* C25 witness: a modifyGroup whose attrObj carried another id has
\* succeeded and the group is stored under the id it was addressed by.
C25_Witness ==
    \E p \in Procs :
        /\ req[p].op = "modifyGroup" /\ req[p].pc = "done"
        /\ "id" \in DOMAIN req[p].updatedGroup
        /\ req[p].updatedGroup.id # req[p].gid
        /\ groupWhere(groups, req[p].gid) # {}

\* a getUsers or getGroups in slot p arrives or resumes in this step
Gets(p) ==
    req'[p] # req[p] /\ req'[p].op \in {"getUsers", "getGroups"}

\* C26: no step of getUsers or getGroups creates, updates or deletes a
\* record, whether the read goes on, succeeds or fails.
C26_ReadsWriteNothing ==
    [][\A p \in Procs :
         Gets(p) => /\ users' = users /\ groups' = groups
                    /\ nextUserId' = nextUserId /\ nextGroupId' = nextGroupId
                    /\ pending' = pending]_vars

\* C26 witness: a getGroups has failed after it read the groups and the
\* members of one, with a user and a group stored.
C26_Witness ==
    \E p \in Procs :
        /\ req[p].op = "getGroups" /\ req[p].pc = "failed" /\ req[p].reads >= 2
        /\ users # {} /\ groups # {}

\* a deleteGroup in slot p arrives or resumes in this step
DeletesGroup(p) ==
    req'[p] # req[p] /\ req'[p].op = "deleteGroup"

\* C27: a deleteGroup that succeeds removes the addressed group and nothing
\* else: every user and every other group, its members included, is as it
\* was; a deleteGroup that does not succeed changes nothing.
C27_DeleteGroupRemovesOnlyTheGroup ==
    [][\A p \in Procs :
         DeletesGroup(p) =>
            /\ users' = users
            /\ IF req'[p].pc = "done"
               THEN /\ groupWhere(groups, req'[p].gid) # {}
                    /\ groups' = groups \ groupWhere(groups, req'[p].gid)
               ELSE groups' = groups]_vars

\* C27 witness: a deleteGroup has succeeded, and another group with a member
\* is stored.
C27_Witness ==
    \E p \in Procs :
        /\ req[p].op = "deleteGroup" /\ req[p].pc = "done"
        /\ groupWhere(groups, req[p].gid) = {}
        /\ \E g \in groups : g.members # <<>>

\* C28: a fully populated row mapped to the external schema and back has
\* every field of the rule set of its kind, with the value it had.
C28_RoundTripReproducesMappedFields ==
    \A p \in Procs :
        (req[p].op = "map" /\ req[p].pc = "done") =>
            \A k \in DOMAIN mapOf(req[p].kind) :
                LET f == mapOf(req[p].kind)[k].key IN
                /\ f \in DOMAIN req[p].internal
                /\ req[p].internal[f] = req[p].R[f]

\* C29: in the rule set of the kind being mapped, no two rules have the same
\* attribute name.
C29_RulesUniqueByAttribute ==
    \A p \in Procs :
        req[p].op = "map" =>
            \A i, j \in DOMAIN mapOf(req[p].kind) :
                mapOf(req[p].kind)[i].mapTo = mapOf(req[p].kind)[j].mapTo => i = j

\* the modifyGroup in slot p, which resolved a member, has succeeded
EditDone(p) ==
    req[p].op = "modifyGroup" /\ req[p].pc = "done" /\ req[p].uid # 0

\* C30: when two modifyGroup requests on one group, each adding another
\* user, have both succeeded, the stored members hold both users' ids.
C30_ConcurrentAddsBothStored ==
    \A p, q \in Procs :
        (/\ p # q /\ EditDone(p) /\ EditDone(q)
         /\ req[p].gid = req[q].gid /\ req[p].uid # req[q].uid)
        => \A g \in groupWhere(groups, req[p].gid) :
               includes(g.members, req[p].uid) /\ includes(g.members, req[q].uid)

\* the modifyGroup in slot p, which carries no member edits, writes in this
\* step
WritesWithoutEdits(p) ==
    /\ req[p].op = "modifyGroup" /\ req[p].pc = "mgUpdate"
    /\ req[p].edits = <<>> /\ req'[p].pc = "done"

\* C31: the update of a modifyGroup that carries no member edits leaves the
\* stored members list of the group as it is, whatever other requests did
\* between its read and its write.
C31_NoEditsKeepMembers ==
    [][\A p \in Procs :
         WritesWithoutEdits(p) =>
            \A g \in groupWhere(groups, req[p].gid) :
                \A h \in groupWhere(groups', req[p].gid) :
                    h.members = g.members]_vars

\* a step of the modifyGroup in slot p
ModifiesGroup(p) ==
    req'[p] # req[p] /\ req'[p].op = "modifyGroup"

\* C32: a modifyGroup changes the stored groups in one step only, its
\* update after the last edit, which stores the mapped attributes and the
\* final members list together; it starts at most one write, and none when
\* it fails on the existence check or on an edit.
C32_ModifyGroupIsAllOrNothing ==
    [][\A p \in Procs :
         ModifiesGroup(p) =>
            /\ req'[p].writes <= 1
            /\ (req'[p].pc = "failed" /\ req'[p].err \in {"Group not found", "User not found"})
                  => req'[p].writes = 0
            /\ req'[p].pc # "done" => groups' = groups
            /\ req'[p].pc = "done" =>
                  /\ req[p].pc = "mgUpdate" /\ req[p].i = Len(req[p].edits) + 1
                  /\ req[p].writes = 0
                  /\ \A h \in groupWhere(groups', req[p].gid) :
                        /\ h.members = req[p].work
                        /\ "name" \in DOMAIN req[p].updatedGroup
                              => h.name = req[p].updatedGroup.name
                  /\ \A h \in groups' : h.id # req[p].gid => h \in groups]_vars

\* C32 witness: a modifyGroup has failed on an unknown member after an
\* earlier edit resolved a user; it started no write and the user is not in
\* the stored members.
C32_Witness ==
    \E p \in Procs :
        /\ req[p].op = "modifyGroup" /\ req[p].pc = "failed"
        /\ req[p].err = "User not found" /\ req[p].uid # 0 /\ req[p].writes = 0
        /\ \E g \in groupWhere(groups, req[p].gid) : ~includes(g.members, req[p].uid)

\* C33: a membership update of deleteUser that reaches the store takes one
\* user id out of the members of its group and changes nothing else: the
\* other ids stay, in their order, and no other group is written.
C33_PruneRemovesOnlyTheUser ==
    [][\A u \in pending :
         (u \notin pending' /\ groups' # groups) =>
            /\ \A h \in groups' : h.id # u.gid => h \in groups
            /\ \A g \in groupWhere(groups, u.gid) :
                  \A h \in groupWhere(groups', u.gid) :
                      \E uid \in 1..MaxUsers : h.members = filterOut(g.members, uid)]_vars

\* the deleteUser in slot p settles in this step
DeleteUserSettles(p) ==
    /\ req[p].op = "deleteUser" /\ req[p].pc = "duDelete"
    /\ req'[p].pc \in {"done", "failed"}

\* C34: when deleteUser settles, none of the membership updates it started
\* is still on its way to the store.
C34_UpdatesCompleteBeforeReturn ==
    [][\A p \in Procs :
         DeleteUserSettles(p) =>
            pruneUpdates(req[p].found, req[p].uid) \cap pending' = {}]_vars

\* C35: the value of each member entry getGroups returns is a value under
\* which a delete edit of modifyGroup finds that member, and it is the id
\* getUsers returns for the same user.
C35_MemberValueRoundTrip ==
    [][\A p \in Procs :
         PushesGroup(p) =>
            LET resource == req'[p].Resources[Len(req'[p].Resources)] IN
            \A k \in DOMAIN resource.members :
                LET value == idString(resource.members[k].value) IN
                \A u \in {x \in users : x.id = resource.members[k].value} :
                    /\ userWhere(users, value) = {u}
                    /\ value = inbound(u, UserMap).userName]_vars

\* a step of the modifyUser in slot p
ModifiesUser(p) ==
    req'[p] # req[p] /\ req'[p].op = "modifyUser"

\* C36: a step of modifyUser leaves every group as it is and writes no user
\* but the addressed one, and the user it has written is a member of the
\* groups it was a member of.
C36_ModifyUserKeepsMemberships ==
    [][\A p \in Procs :
         ModifiesUser(p) =>
            /\ groups' = groups
            /\ \A u \in users \ users' : u.username = req'[p].name
            /\ \A u \in users \ users' : \A v \in users' \ users :
                  groupsHaving(groups', v.id) = groupsHaving(groups, u.id)]_vars

\* C37: a step of modifyUser never changes the id of a stored user, also
\* when attrObj carries an id.
C37_ModifyUserKeepsId ==
    [][\A p \in Procs :
         ModifiesUser(p) => {u.id : u \in users'} = {u.id : u \in users}]_vars

\* the handler in slot p has been called and has not settled
Running(p) == req[p].pc \notin {"idle", "done", "failed"}

\* the handler in slot p has settled: its caller has a success or a failure
Returned(p) == req[p].pc \in {"done", "failed"}

\* the handler in slot p made a store call
ReachedStore(p) ==
    req[p].op \in {"getUsers", "getGroups"} => req[p].reads > 0

\* C38: a handler that has been called settles in the end, with a success
\* or a failure; once settled its outcome stays until the caller takes it,
\* and it has released the store session once if it reached the store, and
\* not at all otherwise.
C38_EveryOperationReturnsOnce ==
    /\ \A p \in Procs : Running(p) ~> Returned(p)
    /\ [][\A p \in Procs :
            Returned(p) => (req'[p] = req[p] \/ req'[p] = Idle)]_vars
    /\ [](\A p \in Procs :
            Returned(p) => req[p].disconnects = IF ReachedStore(p) THEN 1 ELSE 0)

\* C38 witness: a deleteUser that started a membership update has returned
\* success and released the session once.
C38_Witness ==
    \E p \in Procs :
        /\ req[p].op = "deleteUser" /\ req[p].pc = "done"
        /\ req[p].writes = 2 /\ req[p].disconnects = 1

====
